---------------------------- MODULE Spec2Model ----------------------------
(***************************************************************************)
(* Model of the two Python-Markdown preprocessors of this repository:      *)
(*   markdown/extensions/criticmarkup.py  (CriticMarkup annotations)       *)
(*   markdown/extensions/smartembeds.py   (@protocol:[title](url) embeds)  *)
(*                                                                         *)
(* A Python string is a sequence of tokens.  A token is a one-character    *)
(* string ("a", "\n", "{" ...) or, in produced markup only, a literal      *)
(* chunk of a template or replacement ("<ins>", "</del>" ...) that holds   *)
(* no line break; the Python string is the concatenation of the tokens.    *)
(***************************************************************************)
EXTENDS Naturals, Sequences, FiniteSets, TLC

VARIABLES
    lines,   \* the line sequence the host hands to a preprocessor's run()
    pass,    \* the preprocessor that ran ("" while none has run)
    text,    \* run()'s local: the joined text after re.sub (criticmarkup)
    calls,   \* smartembeds: one record per _process call, in order
    result   \* what run() returned, or the exception it raised

vars == <<lines, pass, text, calls, result>>

(***************************************************************************)
(* Bounds of the explored inputs.                                          *)
(***************************************************************************)
MaxValueLen == 4   \* characters of an annotation VALUE
MaxSubLen == 2     \* characters of ORIGINAL and of NEW in a substitution
MaxPieces == 3     \* delimiter/character pieces of a free-form text
MaxUnits == 2      \* units of an attribute block
MaxLines == 2      \* lines of a document of short lines

(***************************************************************************)
(* Python str and list helpers.                                            *)
(***************************************************************************)
Min(S) == CHOOSE x \in S : \A y \in S : x <= y

Max(S) == CHOOSE x \in S : \A y \in S : x >= y

\* s[i-1:] in Python, i being the 1-based first index kept
From(s, i) == SubSeq(s, i, Len(s))

\* s.startswith(p, i-1)
MatchAt(s, p, i) ==
    /\ i >= 1
    /\ i + Len(p) - 1 <= Len(s)
    /\ \A k \in 1..Len(p) : s[i + k - 1] = p[k]

StartsWith(s, p) == MatchAt(s, p, 1)

EndsWith(s, p) == Len(p) <= Len(s) /\ MatchAt(s, p, Len(s) - Len(p) + 1)

\* s.find(p, i-1) + 1: the first index >= i where p occurs, 0 when none
Find(s, p, i) ==
    LET hits == {k \in i..(Len(s) + 1 - Len(p)) : MatchAt(s, p, k)}
    IN  IF hits = {} THEN 0 ELSE Min(hits)

Contains(s, p) == Find(s, p, 1) # 0

\* s.replace(old, new): left to right, non-overlapping (old is not empty)
RECURSIVE StrReplace(_, _, _)
StrReplace(s, old, new) ==
    LET k == Find(s, old, 1)
    IN  IF k = 0 THEN s
        ELSE SubSeq(s, 1, k - 1) \o new \o StrReplace(From(s, k + Len(old)), old, new)

\* sep.join(ls)
RECURSIVE StrJoin(_, _)
StrJoin(sep, ls) ==
    IF Len(ls) = 0 THEN <<>>
    ELSE IF Len(ls) = 1 THEN ls[1]
    ELSE ls[1] \o sep \o StrJoin(sep, Tail(ls))

\* s.split(sep) for a one-character sep: never empty, keeps empty fields
RECURSIVE StrSplit(_, _)
StrSplit(s, c) ==
    LET k == Find(s, <<c>>, 1)
    IN  IF k = 0 THEN <<s>>
        ELSE <<SubSeq(s, 1, k - 1)>> \o StrSplit(From(s, k + 1), c)

\* the characters str.splitlines() breaks a line at ("\r\n" counts once)
LineBreaks == {"\n", "\r", "\f"}

\* s.splitlines(False): no line for the empty string, and none after a
\* final line break
RECURSIVE SplitLines(_)
SplitLines(s) ==
    IF Len(s) = 0 THEN <<>>
    ELSE LET brk == {k \in 1..Len(s) : s[k] \in LineBreaks}
         IN  IF brk = {} THEN <<s>>
             ELSE LET k == Min(brk)
                      n == IF s[k] = "\r" /\ k < Len(s) /\ s[k + 1] = "\n"
                           THEN k + 2 ELSE k + 1
                  IN  <<SubSeq(s, 1, k - 1)>> \o SplitLines(From(s, n))

\* os.linesep on the POSIX hosts the plugin's Python runs on
LINESEP == <<"\n">>

(***************************************************************************)
(* criticmarkup.py: the five compiled patterns.  A match is a record       *)
(* [s, e, g1, g2]: first and last index of the match and its groups;       *)
(* NoMatch when the pattern matches nowhere at or after the position.      *)
(***************************************************************************)
NoMatch == [s |-> 0, e |-> 0, g1 |-> <<>>, g2 |-> <<>>]

\* open(?P<value>.*?)close with re.DOTALL, searched from index pos: the
\* leftmost open that has a close behind it, VALUE ending at the first close
LazySpan(open, close, t, pos) ==
    LET starts == {i \in pos..Len(t) :
                     MatchAt(t, open, i) /\ Find(t, close, i + Len(open)) # 0}
    IN  IF starts = {} THEN NoMatch
        ELSE LET i == Min(starts)
                 j == Find(t, close, i + Len(open))
             IN  [s |-> i, e |-> j + Len(close) - 1,
                  g1 |-> SubSeq(t, i + Len(open), j - 1), g2 |-> <<>>]

ADDITION_RE(t, pos) == LazySpan(<<"{", "+", "+">>, <<"+", "+", "}">>, t, pos)

DELETION_RE(t, pos) == LazySpan(<<"{", "-", "-">>, <<"-", "-", "}">>, t, pos)

COMMENT_RE(t, pos) == LazySpan(<<"{", ">", ">">>, <<"<", "<", "}">>, t, pos)

HIGHLIGHT_RE(t, pos) == LazySpan(<<"{", "=", "=">>, <<"=", "=", "}">>, t, pos)

\* (?:[^~>]|(?:~(?!>))) at index k
OriginalUnit(t, k) ==
    \/ t[k] \notin {"~", ">"}
    \/ t[k] = "~" /\ ~MatchAt(t, <<">">>, k + 1)

\* (?:[^~~]|(?:~(?!~}))) at index k
NewUnit(t, k) ==
    \/ t[k] # "~"
    \/ t[k] = "~" /\ ~MatchAt(t, <<"~", "}">>, k + 1)

\* the index after the longest run of units starting at index k
OriginalEnd(t, k) ==
    Min({e \in k..(Len(t) + 1) : e = Len(t) + 1 \/ ~OriginalUnit(t, e)})

NewEnd(t, k) ==
    Min({e \in k..(Len(t) + 1) : e = Len(t) + 1 \/ ~NewUnit(t, e)})

\* SUBSTITUTION_RE anchored at index i.  Both groups are greedy runs of
\* one-character units; a shorter run never helps, because the delimiter
\* that must follow starts with a character the run would have refused.
SubstitutionAt(t, i) ==
    IF ~MatchAt(t, <<"{", "~", "~">>, i) THEN NoMatch
    ELSE LET oe == OriginalEnd(t, i + 3)
         IN  IF oe = i + 3 \/ ~MatchAt(t, <<"~", ">">>, oe) THEN NoMatch
             ELSE LET ne == NewEnd(t, oe + 2)
                  IN  IF ne = oe + 2 \/ ~MatchAt(t, <<"~", "~", "}">>, ne)
                      THEN NoMatch
                      ELSE [s |-> i, e |-> ne + 2,
                            g1 |-> SubSeq(t, i + 3, oe - 1),
                            g2 |-> SubSeq(t, oe + 2, ne - 1)]

SUBSTITUTION_RE(t, pos) ==
    LET starts == {i \in pos..Len(t) : SubstitutionAt(t, i).s # 0}
    IN  IF starts = {} THEN NoMatch ELSE SubstitutionAt(t, Min(starts))

(***************************************************************************)
(* criticmarkup.py: the replacement callbacks.                             *)
(***************************************************************************)
NLNL == <<"\n", "\n">>

InsOpen == <<"<ins>">>

InsClose == <<"</ins>">>

\* "\n\n<ins class='critic' break>&nbsp;</ins>\n\n"
BreakBefore == NLNL \o <<"<ins class='critic' break>&nbsp;</ins>">> \o NLNL

\* "\n\n<ins class='critic break'>&nbsp;</ins>\n\n"
BreakMarker == NLNL \o <<"<ins class='critic break'>&nbsp;</ins>">> \o NLNL

\* Addition_sub testing the trailing double newline before the leading one
Addition_sub_EndsFirst(m) ==
    LET value == m.g1
        flat == StrReplace(value, <<"\n">>, <<" ">>)
    IN  IF value = NLNL
        THEN BreakMarker
        ELSE IF EndsWith(value, NLNL)
        THEN InsOpen \o flat \o InsClose \o BreakMarker
        ELSE IF StartsWith(value, NLNL)
        THEN BreakBefore \o InsOpen \o flat \o InsClose
        ELSE InsOpen \o flat \o InsClose

Addition_sub(m) ==
    LET value == m.g1
        flat == StrReplace(value, <<"\n">>, <<" ">>)
    IN  IF StartsWith(value, NLNL) /\ value # NLNL
        THEN BreakBefore \o InsOpen \o flat \o InsClose
        ELSE IF value = NLNL
        THEN BreakMarker
        ELSE IF EndsWith(value, NLNL) /\ value # NLNL
        THEN InsOpen \o flat \o InsClose \o BreakMarker
        ELSE InsOpen \o flat \o InsClose

\* Deletion_sub removing the double newlines instead of replacing them
Deletion_sub_Removed(m) ==
    LET val == m.g1
    IN  IF val = NLNL THEN <<"<del>&nbsp;</del>">>
        ELSE <<"<del>">> \o StrReplace(val, NLNL, <<>>) \o <<"</del>">>

Deletion_sub(m) ==
    LET val == m.g1
    IN  IF val = NLNL THEN <<"<del>&nbsp;</del>">>
        ELSE <<"<del>">> \o StrReplace(val, NLNL, <<"&nbsp">>) \o <<"</del>">>

Highlighter_sub(m) == <<"<mark>">> \o m.g1 \o <<"</mark>">>

Comment_sub(m) == <<"<span class=\"critic comment\">">> \o m.g1 \o <<"</span>">>

Substitution_sub(m) ==
    <<"<del>">> \o m.g1 \o <<"</del><ins>">> \o m.g2 \o <<"</ins>">>

(***************************************************************************)
(* The state a run() leaves behind.                                        *)
(***************************************************************************)
NoResult == [kind |-> "none", val |-> <<>>, exc |-> ""]

Returned(ls) == [kind |-> "lines", val |-> ls, exc |-> ""]

Raised(e) == [kind |-> "raise", val |-> <<>>, exc |-> e]

\* the compiled pattern a preprocessor searches with, from index pos on
Pattern(name, t, pos) ==
    CASE name = "Addition" -> ADDITION_RE(t, pos)
      [] name = "Deletion" -> DELETION_RE(t, pos)
      [] name = "Substitution" -> SUBSTITUTION_RE(t, pos)
      [] name = "Highlighter" -> HIGHLIGHT_RE(t, pos)
      [] name = "Comment" -> COMMENT_RE(t, pos)

\* the preprocessor's _sub callback
Repl(name, m) ==
    CASE name = "Addition" -> Addition_sub(m)
      [] name = "Deletion" -> Deletion_sub(m)
      [] name = "Substitution" -> Substitution_sub(m)
      [] name = "Highlighter" -> Highlighter_sub(m)
      [] name = "Comment" -> Comment_sub(m)

\* pattern.sub(self._sub, t): every non-overlapping match, left to right
RECURSIVE ReSub(_, _, _)
ReSub(name, t, pos) ==
    LET m == Pattern(name, t, pos)
    IN  IF m.s = 0 THEN From(t, pos)
        ELSE SubSeq(t, pos, m.s - 1) \o Repl(name, m) \o ReSub(name, t, m.e + 1)

\* what run() of a criticmarkup preprocessor computes: join, substitute,
\* split
CriticRun(name) ==
    LET subbed == ReSub(name, StrJoin(LINESEP, lines), 1)
    IN  /\ text' = subbed
        /\ result' = Returned(SplitLines(subbed))
        /\ pass' = name
        /\ UNCHANGED <<lines, calls>>

AdditionRun ==
    /\ pass = ""
    /\ CriticRun("Addition")

DeletionRun ==
    /\ pass = ""
    /\ CriticRun("Deletion")

SubstitutionRun ==
    /\ pass = ""
    /\ CriticRun("Substitution")

HighlighterRun ==
    /\ pass = ""
    /\ CriticRun("Highlighter")

CommentRun ==
    /\ pass = ""
    /\ CriticRun("Comment")

(***************************************************************************)
(* Documents handed to the criticmarkup passes.  The host splits the       *)
(* source at "\n", so no line holds one.                                   *)
(***************************************************************************)
SeqsUpTo(S, n) == UNION {[1..k -> S] : k \in 0..n}

RECURSIVE Flatten(_)
Flatten(ps) == IF Len(ps) = 0 THEN <<>> ELSE ps[1] \o Flatten(Tail(ps))

\* {++VALUE++}
AdditionTexts ==
    {<<"{", "+", "+">> \o v \o <<"+", "+", "}">> :
        v \in SeqsUpTo({"\n", "a", "+"}, MaxValueLen)}

SpanKinds ==
    { [open |-> <<"{", "-", "-">>, close |-> <<"-", "-", "}">>, c |-> "-"],
      [open |-> <<"{", "=", "=">>, close |-> <<"=", "=", "}">>, c |-> "="],
      [open |-> <<"{", ">", ">">>, close |-> <<"<", "<", "}">>, c |-> "<"] }

\* the VALUEs tried inside a span whose closing delimiter starts with c
SpanValues(c) ==
    SeqsUpTo({"\n", "a", c}, MaxValueLen) \cup SeqsUpTo({"\n", "}", c}, MaxValueLen - 1)

\* PREFIX{--VALUE--}SUFFIX and the same for highlights and comments
SpanTexts ==
    UNION {{p \o k.open \o v \o k.close \o s :
               p \in {<<>>, <<"a", "\n">>, <<"{">>},
               v \in SpanValues(k.c),
               s \in {<<>>, <<"\n", "b">>, <<"}">>}} : k \in SpanKinds}

\* {~~ORIGINAL~>NEW~~}
SubstitutionTexts ==
    {<<"{", "~", "~">> \o o \o <<"~", ">">> \o n \o <<"~", "~", "}">> :
        o \in SeqsUpTo({"a", "~", ">", "\n"}, MaxSubLen),
        n \in SeqsUpTo({"b", "~", ">", "}"}, MaxSubLen)}

Pieces ==
    { <<"{", "+", "+">>, <<"+", "+", "}">>, <<"{", "-", "-">>, <<"-", "-", "}">>,
      <<"{", "~", "~">>, <<"~", ">">>, <<"~", "~", "}">>,
      <<"{", "=", "=">>, <<"=", "=", "}">>, <<"{", ">", ">">>, <<"<", "<", "}">>,
      <<"a">>, <<"\n">> }

\* delimiters and text in any order: unmatched, malformed and matched ones
FreeTexts == {Flatten(ps) : ps \in SeqsUpTo(Pieces, MaxPieces)}

CriticTexts == AdditionTexts \cup SpanTexts \cup SubstitutionTexts \cup FreeTexts

InitCritic ==
    /\ lines \in {StrSplit(t, "\n") : t \in CriticTexts}
    /\ pass = ""
    /\ text = <<>>
    /\ calls = <<>>
    /\ result = NoResult

NextCritic ==
    \/ AdditionRun
    \/ DeletionRun
    \/ SubstitutionRun
    \/ HighlighterRun
    \/ CommentRun

SpecCritic == InitCritic /\ [][NextCritic]_vars

(***************************************************************************)
(* smartembeds.py: constants.                                              *)
(***************************************************************************)
K_id == <<"i", "d">>

K_sid == <<"s", "i", "d">>

K_width == <<"w", "i", "d", "t", "h">>

K_height == <<"h", "e", "i", "g", "h", "t">>

K_class == <<"c", "l", "a", "s", "s">>

K_title == <<"t", "i", "t", "l", "e">>

K_url == <<"u", "r", "l">>

P_pdf == <<"p", "d", "f">>

P_slideshare == <<"s", "l", "i", "d", "e", "s", "h", "a", "r", "e">>

P_youtube == <<"y", "o", "u", "t", "u", "b", "e">>

P_vimeo == <<"v", "i", "m", "e", "o">>

P_speakerdeck == <<"s", "p", "e", "a", "k", "e", "r", "d", "e", "c", "k">>

NOID == <<"_", "n", "o", "i", "d">>

KNOWN_PROTOCOLS == {P_slideshare, P_pdf, P_youtube, P_vimeo, P_speakerdeck}

\* what \s matches in the explored lines
Whitespace == {" ", "\t"}

\* [a-zA-Z0-9_-]
NameChars ==
    { "a", "b", "c", "d", "e", "f", "g", "h", "i", "j", "k", "l", "m",
      "n", "o", "p", "q", "r", "s", "t", "u", "v", "w", "x", "y", "z",
      "A", "B", "C", "D", "E", "F", "G", "H", "I", "J", "K", "L", "M",
      "N", "O", "P", "Q", "R", "S", "T", "U", "V", "W", "X", "Y", "Z",
      "0", "1", "2", "3", "4", "5", "6", "7", "8", "9", "_", "-" }

\* a template is a sequence of segments: literal text or %(name)s
Lit(s) == [ref |-> FALSE, v |-> <<s>>]

Ref(k) == [ref |-> TRUE, v |-> k]

NL == [ref |-> FALSE, v |-> <<"\n">>]

RefLink(cls) ==
    << Lit(cls), Lit("<a href=\""), Ref(K_url),
       Lit("\" rel=\"nofollow external\" target=\"_blank\">"), Ref(K_title),
       Lit("</a></div>"), NL, Lit("</div>"), NL >>

PDF_EMBED_TEMPLATE ==
    << Lit("<div class='embedded smartembed pdf'>"), NL,
       Lit("<iframe src=\"http://docs.google.com/gview?embedded=true&url="),
       Ref(K_url), Lit("&\""), Lit(" width=\""), Ref(K_width), Lit("\""),
       Lit(" height=\""), Ref(K_height), Lit("\""),
       Lit(" frameborder=\"0\" marginwidth=\"0\" marginheight=\"0\"></iframe>"), NL,
       Lit("<div class=\"smartembed-ref-pdf\">"), Lit("<a href=\""), Ref(K_url),
       Lit("\" rel=\"nofollow external\" target=\"_blank\">"),
       Lit("Download PDF</a></div>"), NL, Lit("</div>"), NL >>

SLIDESHARE_EMBED_TEMPLATE ==
    << Lit("<div class=\"embedded smartembed slideshare\" style=\"width:"),
       Ref(K_width), Lit("px\""), Lit(" id=\""), Ref(K_sid), Lit("\""), Lit(">"), NL,
       Lit("<iframe class=\"smartembed slideshare\""),
       Lit(" src=\"http://www.slideshare.net/slideshow/embed_code/"), Ref(K_id),
       Lit("?rel=0\""), Lit(" width=\""), Ref(K_width), Lit("\""),
       Lit(" height=\""), Ref(K_height), Lit("\""),
       Lit(" frameborder=\"0\" marginwidth=\"0\" marginheight=\"0\" scrolling=\"no\"></iframe>"),
       NL >> \o RefLink("<div class=\"smartembed-ref-slideshare\">")

SLIDESHARE_EMBED_NOID_TEMPLATE ==
    << Lit("<a href=\""), Ref(K_url),
       Lit("\" rel=\"nofollow external\" target=\"_blank\">"), Ref(K_title),
       Lit("</a>") >>

SPEAKERDECK_EMBED_TEMPLATE ==
    << Lit("<div class=\"embedded smartembed speakerdeck\">"), NL,
       Lit("<script src=\"http://speakerdeck.com/embed/"), Ref(K_id),
       Lit(".js\"></script>"), NL >>
        \o RefLink("<div class=\"smartembed-ref-speakerdeck\">")

SPEAKERDECK_EMBED_NOID_TEMPLATE ==
    << Lit("<a href=\""), Ref(K_url),
       Lit("\" rel=\"nofollow external\" target=\"_blank\">"), Ref(K_title),
       Lit("</a>") >>

VIMEO_EMBED_TEMPLATE ==
    << Lit("<div class=\"embedded smartembed vimeo\">"), NL,
       Lit("<iframe"), Lit(" src=\"http://player.vimeo.com/video/"), Ref(K_id),
       Lit("?title=0&amp;byline=0&amp;portrait=0\""),
       Lit(" width=\""), Ref(K_width), Lit("\""),
       Lit(" height=\""), Ref(K_height), Lit("\""),
       Lit(" frameborder=\"0\" webkitAllowFullScreen mozallowfullscreen allowFullScreen></iframe>"),
       NL >> \o RefLink("<div class=\"smartembed-ref-vimeo\">")

YOUTUBE_EMBED_TEMPLATE ==
    << Lit("<div class=\"embedded smartembed youtube\">"), NL,
       Lit("<iframe class=\"youtube-player\" type=\"text/html\""),
       Lit(" width=\""), Ref(K_width), Lit("\""),
       Lit(" height=\""), Ref(K_height), Lit("\""),
       Lit(" src=\"http://www.youtube.com/embed/"), Ref(K_id), Lit("\""),
       Lit(" frameborder=\"0\"></iframe>"), NL, Lit("</div>"), NL >>

TEMPLATES ==
    (P_pdf :> PDF_EMBED_TEMPLATE)
        @@ (P_slideshare :> SLIDESHARE_EMBED_TEMPLATE)
        @@ ((P_slideshare \o NOID) :> SLIDESHARE_EMBED_NOID_TEMPLATE)
        @@ (P_speakerdeck :> SPEAKERDECK_EMBED_TEMPLATE)
        @@ ((P_speakerdeck \o NOID) :> SPEAKERDECK_EMBED_NOID_TEMPLATE)
        @@ (P_vimeo :> VIMEO_EMBED_TEMPLATE)
        @@ (P_youtube :> YOUTUBE_EMBED_TEMPLATE)

\* a dict: a function from names to strings; {} is the empty function
EmptyDict == <<>>

\* the defaults with vimeo's height forgotten
DEFAULT_PARAMS_NoVimeoHeight ==
    (P_pdf :> ((K_width :> <<"5", "2", "0">>) @@ (K_height :> <<"6", "7", "5">>)))
        @@ (P_slideshare :> ((K_id :> <<>>) @@ (K_sid :> <<>>)
                              @@ (K_width :> <<"5", "2", "0">>) @@ (K_height :> <<"4", "3", "5">>)))
        @@ (P_speakerdeck :> (K_id :> <<>>))
        @@ (P_vimeo :> (K_width :> <<"5", "2", "0">>))
        @@ (P_youtube :> ((K_width :> <<"5", "2", "0">>) @@ (K_height :> <<"3", "9", "0">>)))

DEFAULT_PARAMS ==
    (P_pdf :> ((K_width :> <<"5", "2", "0">>) @@ (K_height :> <<"6", "7", "5">>)))
        @@ (P_slideshare :> ((K_id :> <<>>) @@ (K_sid :> <<>>)
                              @@ (K_width :> <<"5", "2", "0">>) @@ (K_height :> <<"4", "3", "5">>)))
        @@ (P_speakerdeck :> (K_id :> <<>>))
        @@ (P_vimeo :> ((K_width :> <<"5", "2", "0">>) @@ (K_height :> <<"3", "9", "0">>)))
        @@ (P_youtube :> ((K_width :> <<"5", "2", "0">>) @@ (K_height :> <<"3", "9", "0">>)))

\* d.update(e): e's entries win
Update(d, e) == e @@ d

\* d.get(k, default)
Get(d, k, default) == IF k \in DOMAIN d THEN d[k] ELSE default

(***************************************************************************)
(* smartembeds.py: _reSMARTEMBED, matched at the start of a line:          *)
(* whitespace, "@", the protocol (group 1: up to the first ":"), ":",      *)
(* "[" title "]" (group 2: no bracket inside), "(", an optional "<", the   *)
(* url (group 3, lazy), an optional ">", whitespace, an optional quoted    *)
(* segment (group 6 between the quotes), ")".                              *)
(***************************************************************************)
NoEmbed == [ok |-> FALSE, g1 |-> <<>>, g2 |-> <<>>, g3 |-> <<>>,
            has6 |-> FALSE, g6 |-> <<>>]

\* the first index >= i of l that holds no whitespace (Len(l) + 1 if none)
SkipWS(l, i) ==
    Min({k \in i..(Len(l) + 1) : k = Len(l) + 1 \/ l[k] \notin Whitespace})

\* what follows the url, from index e on: an optional ">", whitespace, an
\* optional quoted segment and ")".  The quoted
\* segment is lazy: it ends at the first repeat of its quote that a ")"
\* follows.  Giving back the ">" or some whitespace never helps: what must
\* come next is a quote or ")".
UrlRest(l, e) ==
    LET p == IF e <= Len(l) /\ l[e] = ">" THEN e + 1 ELSE e
        q == SkipWS(l, p)
    IN  IF q > Len(l) THEN NoEmbed
        ELSE IF l[q] \in {"'", "\""}
        THEN LET ks == {k \in (q + 1)..(Len(l) - 1) : l[k] = l[q] /\ l[k + 1] = ")"}
             IN  IF ks = {} THEN NoEmbed
                 ELSE [NoEmbed EXCEPT !.ok = TRUE, !.has6 = TRUE,
                                      !.g6 = SubSeq(l, q + 1, Min(ks) - 1)]
        ELSE IF l[q] = ")" THEN [NoEmbed EXCEPT !.ok = TRUE]
        ELSE NoEmbed

reSMARTEMBED_match(l) ==
    LET a == SkipWS(l, 1)
        c == Find(l, <<":">>, a + 1)
        brackets == {k \in (c + 2)..Len(l) : l[k] \in {"[", "]"}}
    IN  IF a > Len(l) \/ l[a] # "@" THEN NoEmbed
        ELSE IF c < a + 2 \/ ~MatchAt(l, <<"[">>, c + 1) THEN NoEmbed
        ELSE IF brackets = {} THEN NoEmbed
        ELSE LET tb == Min(brackets)
                 us == IF MatchAt(l, <<"<">>, tb + 2) THEN tb + 3 ELSE tb + 2
                 es == {e \in us..Len(l) : UrlRest(l, e).ok}
             IN  IF l[tb] # "]" \/ ~MatchAt(l, <<"(">>, tb + 1) \/ es = {}
                 THEN NoEmbed
                 ELSE [UrlRest(l, Min(es)) EXCEPT
                          !.g1 = SubSeq(l, a + 1, c - 1),
                          !.g2 = SubSeq(l, c + 2, tb - 1),
                          !.g3 = SubSeq(l, us, Min(es) - 1)]

(***************************************************************************)
(* smartembeds.py: _attributes.                                            *)
(***************************************************************************)
\* reATTRIBUTE_TITLE.search(s), group 2: what stands between the leftmost
\* "{{" and, greedily, the last "}}" behind it, at least one character
reATTRIBUTE_TITLE_search(s) ==
    LET closes(i) == {j \in (i + 3)..Len(s) : MatchAt(s, <<"}", "}">>, j)}
        opens == {i \in 1..Len(s) : MatchAt(s, <<"{", "{">>, i) /\ closes(i) # {}}
    IN  IF opens = {} THEN [ok |-> FALSE, g2 |-> <<>>]
        ELSE [ok |-> TRUE,
              g2 |-> SubSeq(s, Min(opens) + 2, Max(closes(Min(opens))) - 1)]

\* the index after the longest run of characters of (not of) C from index k
RunOf(s, k, C) ==
    Min({e \in k..(Len(s) + 1) : e = Len(s) + 1 \/ s[e] \notin C})

RunNotOf(s, k, C) ==
    Min({e \in k..(Len(s) + 1) : e = Len(s) + 1 \/ s[e] \in C})

\* reATTR anchored at index i: the index after the match and the
\* alternative that matched (0: no match here)
\*   1 #name   2 name='value' (value without quote, not empty)
\*   3 name=value (value without whitespace, not empty)   4 name
reATTR_at(s, i) ==
    LET ne == RunOf(s, i, NameChars)
        qe == RunNotOf(s, ne + 2, {"'"})
        ve == RunNotOf(s, ne + 1, Whitespace)
    IN  IF s[i] = "#"
        THEN IF RunOf(s, i + 1, NameChars) > i + 1
             THEN [e |-> RunOf(s, i + 1, NameChars), form |-> 1]
             ELSE [e |-> 0, form |-> 0]
        ELSE IF ne = i THEN [e |-> 0, form |-> 0]
        ELSE IF MatchAt(s, <<"=", "'">>, ne) /\ qe > ne + 2 /\ qe <= Len(s)
        THEN [e |-> qe + 1, form |-> 2]
        ELSE IF MatchAt(s, <<"=">>, ne) /\ ve > ne + 1
        THEN [e |-> ve, form |-> 3]
        ELSE [e |-> ne, form |-> 4]

\* the matches of reATTR in s from index pos on, left to right, each a
\* record [s, e, form]: first index, index after, alternative
RECURSIVE reATTR_scan(_, _)
reATTR_scan(s, pos) ==
    LET hits == {i \in pos..Len(s) : reATTR_at(s, i).e # 0}
    IN  IF hits = {} THEN <<>>
        ELSE LET i == Min(hits)
                 m == reATTR_at(s, i)
             IN  <<[s |-> i, e |-> m.e, form |-> m.form]>> \o reATTR_scan(s, m.e)

\* reATTR.findall(s): the matched strings only
reATTR_findall(s) ==
    LET ms == reATTR_scan(s, 1)
    IN  [k \in 1..Len(ms) |-> SubSeq(s, ms[k].s, ms[k].e - 1)]

\* ' '.join(x) for a string x: its characters with a space between them
SpaceOut(x) ==
    [k \in 1..(IF Len(x) = 0 THEN 0 ELSE 2 * Len(x) - 1) |->
        IF k % 2 = 1 THEN x[(k + 1) \div 2] ELSE " "]

\* the loop of _attributes over the matches.  st.d holds the string
\* entries of attrs; st.cls says what attrs['class'] is: "none" (no such
\* key), "list" (the list st.cl of bare tokens) or "str" (the string
\* st.d[K_class] a class=... unit stored).  Appending to a str raises.
AttrStep(st, attr_val) ==
    LET val_sep_idx == Find(attr_val, <<"=">>, 1)
        attr_name == SubSeq(attr_val, 1, val_sep_idx - 1)
        value == IF attr_val[val_sep_idx + 1] = "'"
                 THEN SubSeq(attr_val, val_sep_idx + 2, Len(attr_val) - 1)
                 ELSE From(attr_val, val_sep_idx + 1)
    IN  IF st.err # "" THEN st
        ELSE IF StartsWith(attr_val, <<"#">>)
        THEN [st EXCEPT !.d = (K_id :> Tail(attr_val)) @@ st.d]
        ELSE IF val_sep_idx > 0
        THEN [st EXCEPT !.d = (attr_name :> value) @@ st.d,
                        !.cls = IF attr_name = K_class THEN "str" ELSE st.cls]
        ELSE IF st.cls = "str" THEN [st EXCEPT !.err = "AttributeError"]
        ELSE [st EXCEPT !.cl = Append(st.cl, attr_val), !.cls = "list"]

RECURSIVE AttrLoop(_, _)
AttrLoop(st, matches) ==
    IF Len(matches) = 0 THEN st
    ELSE AttrLoop(AttrStep(st, matches[1]), Tail(matches))

\* _attributes(attributes): [err, d]; attributes is [has, v], has = FALSE
\* standing for None
Attributes(attributes) ==
    LET matchobj == reATTRIBUTE_TITLE_search(attributes.v)
        st == AttrLoop([d |-> EmptyDict, cl |-> <<>>, cls |-> "none", err |-> ""],
                       reATTR_findall(matchobj.g2))
    IN  IF ~attributes.has \/ attributes.v = <<>> THEN [err |-> "", d |-> EmptyDict]
        ELSE IF ~matchobj.ok THEN [err |-> "", d |-> EmptyDict]
        ELSE IF st.err # "" THEN [err |-> st.err, d |-> EmptyDict]
        ELSE IF st.cls = "list"
        THEN [err |-> "", d |-> (K_class :> StrJoin(<<" ">>, st.cl)) @@ st.d]
        ELSE IF st.cls = "str"
        THEN [err |-> "", d |-> (K_class :> SpaceOut(st.d[K_class])) @@ st.d]
        ELSE [err |-> "", d |-> st.d]

(***************************************************************************)
(* smartembeds.py: the identifiers derived per protocol.                   *)
(***************************************************************************)
SS_PREFIX == <<"_", "_", "s", "s", "_">>

\* _slideshare that never splits a prefixed id
Slideshare_KeepsPrefixedId(url, params) ==
    LET id == Get(params, K_id, <<>>)
        sid == Get(params, K_sid, <<>>)
    IN  IF id # <<>>
        THEN IF sid = <<>> THEN (K_sid :> (SS_PREFIX \o id)) ELSE EmptyDict
        ELSE IF sid # <<>>
        THEN IF StartsWith(sid, SS_PREFIX)
             THEN (K_id :> From(sid, Len(SS_PREFIX) + 1))
             ELSE (K_id :> sid) @@ (K_sid :> (SS_PREFIX \o sid))
        ELSE EmptyDict

\* _slideshare(url, params): the entries to lay over params
Slideshare(url, params) ==
    LET id == Get(params, K_id, <<>>)
        sid == Get(params, K_sid, <<>>)
    IN  IF id # <<>>
        THEN IF sid = <<>>
             THEN IF StartsWith(id, SS_PREFIX)
                  THEN (K_sid :> id) @@ (K_id :> From(id, Len(SS_PREFIX) + 1))
                  ELSE (K_sid :> (SS_PREFIX \o id))
             ELSE EmptyDict
        ELSE IF sid # <<>>
        THEN IF StartsWith(sid, SS_PREFIX)
             THEN (K_id :> From(sid, Len(SS_PREFIX) + 1))
             ELSE (K_id :> sid) @@ (K_sid :> (SS_PREFIX \o sid))
        ELSE EmptyDict

\* s.split('&') and then each part .split(';'): fields between separators
RECURSIVE QsPairs(_)
QsPairs(s) ==
    LET seps == {k \in 1..Len(s) : s[k] \in {"&", ";"}}
    IN  IF seps = {} THEN <<s>>
        ELSE <<SubSeq(s, 1, Min(seps) - 1)>> \o QsPairs(From(s, Min(seps) + 1))

\* the %XX codes that decode to a character the explored urls use
HexCodes == (<<"7", "6">> :> "v") @@ (<<"3", "D">> :> "=") @@ (<<"2", "6">> :> "&")

\* urlparse.unquote(s.replace('+', ' ')): "+" is a space, %XX the
\* character it encodes, a "%" no hexadecimal pair follows stays
RECURSIVE Unquote(_)
Unquote(s) ==
    IF Len(s) = 0 THEN <<>>
    ELSE IF s[1] = "+" THEN <<" ">> \o Unquote(Tail(s))
    ELSE IF s[1] = "%" /\ Len(s) >= 3 /\ SubSeq(s, 2, 3) \in DOMAIN HexCodes
    THEN <<HexCodes[SubSeq(s, 2, 3)]>> \o Unquote(From(s, 4))
    ELSE <<s[1]>> \o Unquote(Tail(s))

\* parse_qs(qs, keep_blank_values=1).get(key, [''])[0]: the value of the
\* first field named key; an empty field is skipped, a field without "="
\* has the value ''
RECURSIVE QsFirst(_, _)
QsFirst(pairs, key) ==
    IF Len(pairs) = 0 THEN <<>>
    ELSE LET nv == pairs[1]
             eq == Find(nv, <<"=">>, 1)
             name == IF eq = 0 THEN nv ELSE SubSeq(nv, 1, eq - 1)
             value == IF eq = 0 THEN <<>> ELSE From(nv, eq + 1)
         IN  IF nv # <<>> /\ Unquote(name) = key THEN Unquote(value)
             ELSE QsFirst(Tail(pairs), key)

\* _youtube(url, params)
Youtube(url, params) ==
    LET query_idx == Find(url, <<"?">>, 1)
    IN  IF query_idx = 0 THEN (K_id :> <<>>)
        ELSE (K_id :> QsFirst(QsPairs(From(url, query_idx + 1)), <<"v">>))

\* _vimeo(url, params)
Vimeo(url, params) ==
    LET url_parts == StrSplit(url, "/")
        last == url_parts[Len(url_parts)]
        query_idx == Find(last, <<"?">>, 1)
    IN  IF query_idx > 0 THEN (K_id :> SubSeq(last, 1, query_idx - 1))
        ELSE (K_id :> last)

(***************************************************************************)
(* smartembeds.py: _process, step by step.                                 *)
(***************************************************************************)
\* {'title', 'url'}, then the protocol's defaults, then the attributes
Layered(embed_protocol, title, url, attrs) ==
    Update(Update((K_title :> title) @@ (K_url :> url),
                  Get(DEFAULT_PARAMS, embed_protocol, EmptyDict)),
           attrs)

\* the identifiers a protocol derives, laid over params
Derived(embed_protocol, url, params) ==
    IF embed_protocol = P_vimeo THEN Update(params, Vimeo(url, params))
    ELSE IF embed_protocol = P_youtube THEN Update(params, Youtube(url, params))
    ELSE IF embed_protocol = P_slideshare THEN Update(params, Slideshare(url, params))
    ELSE params

NoId(params) == K_id \notin DOMAIN params \/ params[K_id] = <<>>

\* the selection with the fallback of slideshare only
Selected_SlideshareOnly(embed_protocol, params) ==
    IF embed_protocol = P_slideshare /\ NoId(params) THEN P_slideshare \o NOID
    ELSE embed_protocol

\* the key of _TEMPLATES the line is rendered with
Selected(embed_protocol, params) ==
    IF embed_protocol = P_slideshare /\ NoId(params) THEN P_slideshare \o NOID
    ELSE IF embed_protocol = P_speakerdeck /\ NoId(params) THEN P_speakerdeck \o NOID
    ELSE embed_protocol

\* the names a template refers to
TemplateRefs(tpl) == {tpl[k].v : k \in {j \in 1..Len(tpl) : tpl[j].ref}}

RECURSIVE Fill(_, _)
Fill(tpl, params) ==
    IF Len(tpl) = 0 THEN <<>>
    ELSE (IF tpl[1].ref THEN params[tpl[1].v] ELSE tpl[1].v) \o Fill(Tail(tpl), params)

\* template % params: KeyError when the template names a missing key
Render(tpl, params) ==
    IF TemplateRefs(tpl) \subseteq DOMAIN params
    THEN [err |-> "", out |-> Fill(tpl, params)]
    ELSE [err |-> "KeyError", out |-> <<>>]

\* the only member of a set of one member: it binds a local variable:
\* The({F(x) : x \in {e}}) is F(e) with e evaluated once
The(S) == CHOOSE x \in S : TRUE

\* _process(line, embed_protocol, m): what it computed and what it returned
\* (out) or raised (err)
Process(line, embed_protocol, m) ==
    LET title == m.g2
        url == m.g3
        call == [protocol |-> embed_protocol, title |-> title, url |-> url,
                 has_attrs |-> m.has6, attrs |-> m.g6, layer |-> EmptyDict,
                 layered |-> EmptyDict, params |-> EmptyDict, template |-> <<>>,
                 out |-> <<>>, err |-> ""]
    IN  The({
          IF parsed.err # "" THEN [call EXCEPT !.err = parsed.err]
          ELSE The({
            The({
              LET template == Selected(embed_protocol, params)
              IN  The({
                    [call EXCEPT !.layer = parsed.d, !.layered = layered,
                                 !.params = params, !.template = template,
                                 !.out = rendered.out, !.err = rendered.err]
                    : rendered \in {Render(Get(TEMPLATES, template, <<>>), params)} })
              : params \in {Derived(embed_protocol, url, layered)} })
            : layered \in {Layered(embed_protocol, title, url, parsed.d)} })
          : parsed \in {Attributes([has |-> m.has6, v |-> m.g6])} })

(***************************************************************************)
(* smartembeds.py: SmartEmbedsPreprocessor.run.                            *)
(***************************************************************************)
\* a line starting with "@" whose match is m (m.ok = FALSE: no match)
Matched(acc, l, m) ==
    IF ~m.ok THEN [acc EXCEPT !.flines = Append(@, l)]
    ELSE IF m.g1 \notin KNOWN_PROTOCOLS THEN [acc EXCEPT !.flines = Append(@, l)]
    ELSE The({
           IF call.err # ""
           THEN [acc EXCEPT !.calls = Append(@, call), !.exc = call.err]
           ELSE [acc EXCEPT !.calls = Append(@, call), !.flines = Append(@, call.out)]
           : call \in {Process(l, m.g1, m)} })

\* one round of the loop over the lines; acc is [flines, calls, exc]
RunLine(acc, l) ==
    IF acc.exc # "" THEN acc
    ELSE IF l = <<>> THEN [acc EXCEPT !.flines = Append(@, l)]
    \* l.lstrip()[0] of a line of whitespace only
    ELSE IF SkipWS(l, 1) > Len(l) THEN [acc EXCEPT !.exc = "IndexError"]
    ELSE IF l[SkipWS(l, 1)] # "@" THEN [acc EXCEPT !.flines = Append(@, l)]
    ELSE The({Matched(acc, l, m) : m \in {reSMARTEMBED_match(l)}})

RECURSIVE RunLoop(_, _)
RunLoop(acc, ls) ==
    IF Len(ls) = 0 THEN acc ELSE RunLoop(RunLine(acc, ls[1]), Tail(ls))

SmartEmbedsRun ==
    /\ pass = ""
    /\ \E done \in {RunLoop([flines |-> <<>>, calls |-> <<>>, exc |-> ""], lines)} :
          /\ calls' = done.calls
          /\ result' = IF done.exc # "" THEN Raised(done.exc)
                       ELSE Returned(done.flines)
    /\ pass' = "SmartEmbeds"
    /\ UNCHANGED <<lines, text>>

(***************************************************************************)
(* Documents handed to the smartembeds pass.                               *)
(***************************************************************************)
Directive(lead, protocol, title, url, seg) ==
    lead \o <<"@">> \o protocol \o <<":", "[">> \o title \o <<"]", "(">> \o url \o seg \o <<")">>

\* the quoted segment of a directive holding the attribute block {{...}}
AttrSeg(interior) == <<" ", "\"", "{", "{">> \o interior \o <<"}", "}", "\"">>

Units ==
    { <<"#", "x">>, <<"f", "o", "o">>, <<"b", "a", "r">>, <<"w", "i", "d", "t", "h", "=", "'", "1", "0", "0", "'">>, <<"w", "i", "d", "t", "h", "=", "3", "0", "0">>, <<"h", "e", "i", "g", "h", "t", "=", "2", "0", "0">>,
      <<"i", "d", "=", "9">>, <<"i", "d", "=", "_", "_", "s", "s", "_", "9">>, <<"i", "d", "=", "'", "'">>, <<"s", "i", "d", "=", "_", "_", "s", "s", "_", "7">>, <<"s", "i", "d", "=", "7">>, <<"s", "i", "d", "=", "_", "_", "s", "s", "_">>,
      <<"c", "l", "a", "s", "s", "=", "a", "b">>, <<"a", "=", "'", "b">> }

Interiors == {StrJoin(<<" ">>, us) : us \in SeqsUpTo(Units, MaxUnits)}

HomeUrl ==
    (P_pdf :> <<"h", "t", "t", "p", ":", "/", "/", "x", "/", "a", ".", "p", "d", "f">>) @@ (P_slideshare :> <<"h", "t", "t", "p", ":", "/", "/", "x">>)
        @@ (P_speakerdeck :> <<"h", "t", "t", "p", ":", "/", "/", "x">>) @@ (P_youtube :> <<"h", "t", "t", "p", ":", "/", "/", "x", "/", "w", "a", "t", "c", "h", "?", "v", "=", "A", "B", "C", "1", "2", "3">>)
        @@ (P_vimeo :> <<"h", "t", "t", "p", ":", "/", "/", "v", "i", "m", "e", "o", ".", "c", "o", "m", "/", "1", "2", "3">>) @@ (<<"d", "a", "i", "l", "y", "m", "o", "t", "i", "o", "n">> :> <<"h", "t", "t", "p", ":", "/", "/", "x">>)

YoutubeUrls ==
    { <<"h", "t", "t", "p", ":", "/", "/", "x", "/", "w", "a", "t", "c", "h">>, <<"h", "t", "t", "p", ":", "/", "/", "x", "/", "w", "a", "t", "c", "h", "?">>, <<"h", "t", "t", "p", ":", "/", "/", "x", "/", "w", "a", "t", "c", "h", "?", "a", "=", "1">>,
      <<"h", "t", "t", "p", ":", "/", "/", "x", "/", "w", "a", "t", "c", "h", "?", "a", "=", "1", "&", "v", "=", "B">>, <<"h", "t", "t", "p", ":", "/", "/", "x", "/", "w", "a", "t", "c", "h", "?", "v", "=", "A", "&", "v", "=", "B">>, <<"h", "t", "t", "p", ":", "/", "/", "x", "/", "w", "a", "t", "c", "h", "?", "v">>,
      <<"h", "t", "t", "p", ":", "/", "/", "x", "/", "w", "a", "t", "c", "h", "?", "v", "=">>, <<"h", "t", "t", "p", ":", "/", "/", "x", "/", "w", "a", "t", "c", "h", "?", "v", "=", "a", "+", "b">>, <<"h", "t", "t", "p", ":", "/", "/", "x", "/", "w", "a", "t", "c", "h", "?", "%", "7", "6", "=", "C">>,
      <<"h", "t", "t", "p", ":", "/", "/", "x", "/", "w", "a", "t", "c", "h", "?", "a", "=", "1", ";", "v", "=", "B">>, <<"h", "t", "t", "p", ":", "/", "/", "x", "/", "w", "a", "t", "c", "h", "?", "&", "&", "v", "=", "B">>, <<"h", "t", "t", "p", ":", "/", "/", "x", "/", "w", "a", "t", "c", "h", "?", "a", "v", "=", "1">> }

VimeoUrls ==
    { <<"h", "t", "t", "p", ":", "/", "/", "v", "i", "m", "e", "o", ".", "c", "o", "m", "/", "1", "2", "3", "?", "x", "=", "1">>, <<"h", "t", "t", "p", ":", "/", "/", "v", "i", "m", "e", "o", ".", "c", "o", "m", "/", "1", "2", "3", "/">>, <<"1", "2", "3">>, <<>>,
      <<"h", "t", "t", "p", ":", "/", "/", "v", "i", "m", "e", "o", ".", "c", "o", "m", "/", "1", "2", "?">>, <<"h", "t", "t", "p", ":", "/", "/", "v", "i", "m", "e", "o", ".", "c", "o", "m", "/", "1", "2", "?", "a", "?", "b">>,
      <<"h", "t", "t", "p", ":", "/", "/", "v", "i", "m", "e", "o", ".", "c", "o", "m", "/", "1", "2", "?", "r", "=", "a", "/", "b">> }

Segs == {<<>>, AttrSeg(<<"i", "d", "=", "9">>), AttrSeg(<<"w", "i", "d", "t", "h", "=", "3", "0", "0", " ", "h", "e", "i", "g", "h", "t", "=", "2", "0", "0">>)}

\* every attribute block with every protocol, every url with a few blocks
DirectiveLines ==
    {Directive(<<>>, p, <<"T">>, HomeUrl[p], AttrSeg(i)) :
        p \in DOMAIN HomeUrl, i \in Interiors}
      \cup {Directive(<<>>, P_youtube, <<"T">>, u, s) : u \in YoutubeUrls, s \in Segs}
      \cup {Directive(<<>>, P_vimeo, <<"T">>, u, s) : u \in VimeoUrls, s \in Segs}
      \cup {Directive(<<>>, p, <<"T", "i", "t", "l", "e">>, <<"h", "t", "t", "p", ":", "/", "/", "x">>, <<>>) : p \in DOMAIN HomeUrl}

\* the examples of the documentation and directives off the grammar
OtherLines ==
    { <<"@", "y", "o", "u", "t", "u", "b", "e", ":", "[", "T", "i", "t", "l", "e", "]", "(", "h", "t", "t", "p", ":", "/", "/", "x", "/", "w", "a", "t", "c", "h", "?", "v", "=", "A", "B", "C", "1", "2", "3", " ", "\"", "{", "{", "w", "i", "d", "t", "h", "=", "3", "0", "0", " ", "h", "e", "i", "g", "h", "t", "=", "2", "0", "0", "}", "}", "\"", ")">>,
      <<"@", "s", "l", "i", "d", "e", "s", "h", "a", "r", "e", ":", "[", "T", "i", "t", "l", "e", "]", "(", "h", "t", "t", "p", ":", "/", "/", "x", " ", "\"", "{", "{", "i", "d", "=", "_", "_", "s", "s", "_", "9", "9", "9", "}", "}", "\"", ")">>,
      <<"@", "p", "d", "f", ":", "[", "T", "]", "(", "u", " ", "\"", "{", "{", "#", "m", "y", "i", "d", " ", "f", "o", "o", " ", "b", "a", "r", " ", "w", "i", "d", "t", "h", "=", "'", "1", "0", "0", "'", "}", "}", "\"", ")">>,
      <<"@", "p", "d", "f", ":", "[", "T", "]", "(", "u", " ", "\"", "n", "o", "t", " ", "a", "n", " ", "a", "t", "t", "r", "i", "b", "u", "t", "e", " ", "b", "l", "o", "c", "k", "\"", ")">>,
      <<"@", "p", "d", "f", ":", "[", "T", "]", "(", "u", " ", "\"", "x", "{", "{", "w", "i", "d", "t", "h", "=", "1", "}", "}", "y", "\"", ")">>,
      <<"@", "p", "d", "f", ":", "[", "T", "]", "(", "<", "u", ">", " ", "'", "{", "{", "w", "i", "d", "t", "h", "=", "1", "}", "}", "'", ")", " ", "t", "a", "i", "l">>,
      <<" ", " ", "@", "p", "d", "f", ":", "[", "T", "]", "(", "u", " ", "\"", "\"", ")">>,
      <<"@", "p", "d", "f", ":", "[", "T", "]", "(", "u", ">", ">", " ", "\"", "{", "{", "h", "e", "i", "g", "h", "t", "=", "2", "}", "}", "\"", ")">>,
      <<"@", "p", "d", "f", ":", "[", "T", "]", "(", "u", " ", "\"", "a", "\"", " ", "b", ")">>,
      <<"@", "p", "d", "f", ":", "[", "T", "]", "(", ")">>,
      <<"@", "p", "d", "f", ":", "[", "T", "]", "(", "u">>,
      <<"@", "p", "d", "f", ":", "[", "T", "[", "x", "]", "]", "(", "u", ")">>,
      <<"@", "p", "d", "f", " ", "[", "T", "]", "(", "u", ")">>,
      <<"@", "a", ":", "b", ":", "[", "T", "]", "(", "u", ")">>,
      <<"@", ":", "[", "T", "]", "(", "u", ")">>,
      <<"@", "P", "d", "f", ":", "[", "T", "]", "(", "u", ")">>,
      <<"@", " ", "p", "d", "f", ":", "[", "T", "]", "(", "u", ")">> }

ShortLines ==
    { <<>>, <<"a">>, <<" ">>, <<" ", " ">>, <<"@">>, <<" ", "@">>, <<"@", "a">>, <<"a", "@">>, <<" ", "a">>, <<"\t">>,
      <<"@", "s", "p", "e", "a", "k", "e", "r", "d", "e", "c", "k", ":", "[", "T", "]", "(", "u", ")">>, <<"@", "d", "a", "i", "l", "y", "m", "o", "t", "i", "o", "n", ":", "[", "T", "]", "(", "h", "t", "t", "p", ":", "/", "/", "x", ")">>,
      <<"@", "v", "i", "m", "e", "o", ":", "[", "T", "]", "(", "h", "t", "t", "p", ":", "/", "/", "v", "i", "m", "e", "o", ".", "c", "o", "m", "/", "7", " ", "\"", "{", "{", "f", "o", "o", "}", "}", "\"", ")">> }

EmbedDocs ==
    {<<l>> : l \in DirectiveLines \cup OtherLines} \cup SeqsUpTo(ShortLines, MaxLines)

InitEmbeds ==
    /\ lines \in EmbedDocs
    /\ pass = ""
    /\ text = <<>>
    /\ calls = <<>>
    /\ result = NoResult

NextEmbeds == SmartEmbedsRun

SpecEmbeds == InitEmbeds /\ [][NextEmbeds]_vars

(***************************************************************************)
(* Properties of the criticmarkup passes, checked under SpecCritic.        *)
(***************************************************************************)
Joined == StrJoin(<<"\n">>, lines)

CriticPasses == {"Addition", "Deletion", "Substitution", "Highlighter", "Comment"}

Opens == [Addition |-> <<"{", "+", "+">>, Deletion |-> <<"{", "-", "-">>,
          Substitution |-> <<"{", "~", "~">>, Highlighter |-> <<"{", "=", "=">>,
          Comment |-> <<"{", ">", ">">>]

Closes == [Addition |-> <<"+", "+", "}">>, Deletion |-> <<"-", "-", "}">>,
           Substitution |-> <<"~", "~", "}">>, Highlighter |-> <<"=", "=", "}">>,
           Comment |-> <<"<", "<", "}">>]

Delimiters ==
    {Opens[p] : p \in CriticPasses} \cup {Closes[p] : p \in CriticPasses}
        \cup {<<"~", ">">>}

DelimiterFree(s) == \A d \in Delimiters : ~Contains(s, d)

\* t holds an opening delimiter with its closing delimiter behind it
HasSpan(t, open, close) ==
    \E i, j \in 1..Len(t) :
        MatchAt(t, open, i) /\ MatchAt(t, close, j) /\ j >= i + Len(open)

\* t holds {~~O~>N~~} with O and N not empty, O free of ">" and of "~>",
\* N free of "~~}"
HasSubstitution(t) ==
    \E i, m, e \in 1..Len(t) :
        /\ MatchAt(t, <<"{", "~", "~">>, i)
        /\ MatchAt(t, <<"~", ">">>, m)
        /\ MatchAt(t, <<"~", "~", "}">>, e)
        /\ m > i + 3
        /\ e > m + 2
        /\ \A k \in (i + 3)..(m - 1) :
              t[k] # ">" /\ ~MatchAt(t, <<"~", ">">>, k)
        /\ \A k \in (m + 2)..(e - 1) : ~MatchAt(t, <<"~", "~", "}">>, k)

HasAnnotation(p, t) ==
    IF p = "Substitution" THEN HasSubstitution(t)
    ELSE HasSpan(t, Opens[p], Closes[p])

\* C2 (as claimed): a pass whose grammar matches nowhere in the document
\* returns the line sequence it was given: same lines, same count, same
\* order, empty lines at the end included.
C2_PassThrough ==
    (pass \in CriticPasses /\ ~HasAnnotation(pass, Joined))
        => (result.kind = "lines" /\ result.val = lines)

\* VALUE with every newline turned into a space
Spaced(v) == [k \in 1..Len(v) |-> IF v[k] = "\n" THEN " " ELSE v[k]]

\* the four outputs C3 lists for an addition VALUE, first case that applies
C3_Expected(v) ==
    LET starts == Len(v) >= 2 /\ v[1] = "\n" /\ v[2] = "\n"
        ends == Len(v) >= 2 /\ v[Len(v) - 1] = "\n" /\ v[Len(v)] = "\n"
        exact == v = <<"\n", "\n">>
        ins == <<"<ins>">> \o Spaced(v) \o <<"</ins>">>
        brk(cls) == <<"\n", "\n", cls, "\n", "\n">>
    IN  IF starts /\ ~exact
        THEN brk("<ins class='critic' break>&nbsp;</ins>") \o ins
        ELSE IF exact THEN brk("<ins class='critic break'>&nbsp;</ins>")
        ELSE IF ends THEN ins \o brk("<ins class='critic break'>&nbsp;</ins>")
        ELSE ins

\* the document is exactly {++VALUE++} and VALUE is what the pattern captures
IsAddition(t) ==
    /\ Len(t) >= 6
    /\ MatchAt(t, <<"{", "+", "+">>, 1)
    /\ Find(t, <<"+", "+", "}">>, 4) = Len(t) - 2

\* C3: the Addition pass turns {++VALUE++} into exactly one of the four
\* outputs, chosen by whether VALUE starts with, is, or ends with a double
\* newline; a VALUE that starts and ends with one gets no trailing marker.
C3_AdditionCases ==
    (pass = "Addition" /\ IsAddition(Joined))
        => text = C3_Expected(SubSeq(Joined, 4, Len(Joined) - 3))

\* C3's case: a VALUE that both starts and ends with a double newline
C3_Witness ==
    /\ pass = "Addition"
    /\ IsAddition(Joined)
    /\ LET v == SubSeq(Joined, 4, Len(Joined) - 3)
       IN  /\ Len(v) >= 3
           /\ StartsWith(v, <<"\n", "\n">>)
           /\ EndsWith(v, <<"\n", "\n">>)
           /\ ~EndsWith(text, <<"\n">>)

\* ORIGINAL and NEW as C4 allows them: not empty, without "~>" and "~~",
\* and in NEW no "~" right before a "}"
C4_Allowed(o, n) ==
    /\ Len(o) > 0
    /\ Len(n) > 0
    /\ \A s \in {o, n} : ~Contains(s, <<"~", ">">>) /\ ~Contains(s, <<"~", "~">>)
    /\ ~Contains(n, <<"~", "}">>)

\* C4 (as claimed): {~~ORIGINAL~>NEW~~} becomes
\* <del>ORIGINAL</del><ins>NEW</ins> for every allowed ORIGINAL and NEW,
\* a lone ">" in either of them included.
C4_Substitution ==
    pass = "Substitution" =>
        \A m \in 4..(Len(Joined) - 4) :
            LET o == SubSeq(Joined, 4, m - 1)
                n == SubSeq(Joined, m + 2, Len(Joined) - 3)
            IN  ( /\ MatchAt(Joined, <<"{", "~", "~">>, 1)
                  /\ MatchAt(Joined, <<"~", ">">>, m)
                  /\ EndsWith(Joined, <<"~", "~", "}">>)
                  /\ C4_Allowed(o, n) )
                => text = <<"<del>">> \o o \o <<"</del><ins>">> \o n \o <<"</ins>">>

\* VALUE with each double newline, taken left to right, turned into &nbsp
RECURSIVE C5_Nbsp(_, _)
C5_Nbsp(v, k) ==
    IF k > Len(v) THEN <<>>
    ELSE IF k < Len(v) /\ v[k] = "\n" /\ v[k + 1] = "\n"
         THEN <<"&nbsp">> \o C5_Nbsp(v, k + 2)
         ELSE <<v[k]>> \o C5_Nbsp(v, k + 1)

C5_Markup(p, v) ==
    IF p = "Deletion"
    THEN IF v = <<"\n", "\n">> THEN <<"<del>&nbsp;</del>">>
         ELSE <<"<del>">> \o C5_Nbsp(v, 1) \o <<"</del>">>
    ELSE IF p = "Highlighter" THEN <<"<mark>">> \o v \o <<"</mark>">>
    ELSE <<"<span class=\"critic comment\">">> \o v \o <<"</span>">>

\* the document is PREFIX open VALUE close SUFFIX, open at index i and close
\* at index j, PREFIX without delimiters and VALUE without the closing one
C5_Embedded(p, t, i, j) ==
    /\ MatchAt(t, Opens[p], i)
    /\ MatchAt(t, Closes[p], j)
    /\ j >= i + 3
    /\ DelimiterFree(SubSeq(t, 1, i - 1))
    /\ ~Contains(SubSeq(t, i + 3, j - 1), Closes[p])

\* C5: a deletion, highlight or comment between plain PREFIX and SUFFIX
\* becomes PREFIX + markup(VALUE) + SUFFIX; VALUE ends at the first closing
\* delimiter, whatever follows it.
C5_Spans ==
    pass \in {"Deletion", "Highlighter", "Comment"} =>
        \A i, j \in 1..Len(Joined) :
            C5_Embedded(pass, Joined, i, j) =>
                LET pre == SubSeq(Joined, 1, i - 1)
                    v == SubSeq(Joined, i + 3, j - 1)
                    suf == From(Joined, j + 3)
                    head == pre \o C5_Markup(pass, v)
                IN  /\ StartsWith(text, head)
                    /\ DelimiterFree(suf) => text = head \o suf

\* C5's case: a deletion spanning lines between a PREFIX and a SUFFIX
C5_Witness ==
    /\ pass = "Deletion"
    /\ \E i, j \in 2..Len(Joined) :
          /\ C5_Embedded(pass, Joined, i, j)
          /\ j + 3 <= Len(Joined)
          /\ DelimiterFree(From(Joined, j + 3))
          /\ Contains(SubSeq(Joined, i + 3, j - 1), <<"\n", "\n", "\n">>)
          /\ Contains(text, <<"&nbsp", "\n">>)


(***************************************************************************)
(* Properties of the smartembeds pass, checked under SpecEmbeds.           *)
(***************************************************************************)
\* a line that matches the directive grammar and names a known protocol
C1_KnownDirective(l) ==
    /\ reSMARTEMBED_match(l).ok
    /\ reSMARTEMBED_match(l).g1 \in {<<"p", "d", "f">>, <<"s", "l", "i", "d", "e", "s", "h", "a", "r", "e">>, <<"y", "o", "u", "t", "u", "b", "e">>, <<"v", "i", "m", "e", "o">>, <<"s", "p", "e", "a", "k", "e", "r", "d", "e", "c", "k">>}

\* C1 (as claimed): run raises nothing and returns as many lines as it was
\* given, in order, every line that is not a directive of a known protocol
\* unchanged: empty lines, lines of whitespace only, lines not starting with
\* "@", "@" lines off the grammar, directives of an unknown protocol.
C1_PassThrough ==
    pass = "SmartEmbeds" =>
        /\ result.kind = "lines"
        /\ Len(result.val) = Len(lines)
        /\ \A k \in 1..Len(lines) :
              ~C1_KnownDirective(lines[k]) => result.val[k] = lines[k]

\* the calls of _process that returned
Completed == {k \in 1..Len(calls) : calls[k].err = ""}

\* <a href="URL" rel="nofollow external" target="_blank">TITLE</a>
C6_PlainLink(url, title) ==
    <<"<a href=\"">> \o url \o <<"\" rel=\"nofollow external\" target=\"_blank\">">>
        \o title \o <<"</a>">>

\* C6: for slideshare and speakerdeck the plain link is rendered if and
\* only if the id is empty once the identifiers are resolved; the full
\* embed is never rendered with an empty id, and a missing id raises
\* nothing (no key is missed while rendering).
C6_NoIdFallback ==
    \A k \in 1..Len(calls) :
        LET c == calls[k]
            noid == c.protocol \o <<"_", "n", "o", "i", "d">>
        IN  c.protocol \in {<<"s", "l", "i", "d", "e", "s", "h", "a", "r", "e">>, <<"s", "p", "e", "a", "k", "e", "r", "d", "e", "c", "k">>} =>
              /\ c.err # "KeyError"
              /\ c.err = "" =>
                    /\ c.template \in {c.protocol, noid}
                    /\ c.template = noid <=> c.params[K_id] = <<>>
                    /\ c.template = noid =>
                          c.out = C6_PlainLink(c.params[K_url], c.params[K_title])
                    /\ c.template = c.protocol =>
                          /\ Head(c.out) # "<a href=\""
                          /\ \/ Contains(c.out, <<"<script src=\"http://speakerdeck.com/embed/">>
                                                    \o c.params[K_id] \o <<".js\"></script>">>)
                             \/ Contains(c.out, <<" src=\"http://www.slideshare.net/slideshow/embed_code/">>
                                                    \o c.params[K_id] \o <<"?rel=0\"">>)
                    /\ Len(lines) = 1 => result = Returned(<<c.out>>)

\* C6's case: @speakerdeck:[Title](http://x) renders the plain link
C6_Witness ==
    /\ lines = <<<<"@", "s", "p", "e", "a", "k", "e", "r", "d", "e", "c", "k", ":", "[", "T", "i", "t", "l", "e", "]", "(", "h", "t", "t", "p", ":", "/", "/", "x", ")">>>>
    /\ pass = "SmartEmbeds"
    /\ result = Returned(<<C6_PlainLink(<<"h", "t", "t", "p", ":", "/", "/", "x">>, <<"T", "i", "t", "l", "e">>)>>)

\* C7: slideshare reconciliation of (id, sid) as layered from defaults and
\* attributes; with exactly one of them supplied, sid = "__ss_" + id results.
C7_Reconciliation ==
    \A k \in Completed :
        LET c == calls[k]
            pfx == <<"_", "_", "s", "s", "_">>
            id == c.layered[K_id]
            sid == c.layered[K_sid]
            id2 == c.params[K_id]
            sid2 == c.params[K_sid]
        IN  c.protocol = <<"s", "l", "i", "d", "e", "s", "h", "a", "r", "e">> =>
              /\ (id # <<>> /\ sid = <<>> /\ StartsWith(id, pfx))
                    => (sid2 = id /\ pfx \o id2 = id)
              /\ (id # <<>> /\ sid = <<>> /\ ~StartsWith(id, pfx))
                    => (sid2 = pfx \o id /\ id2 = id)
              /\ (id = <<>> /\ sid # <<>> /\ StartsWith(sid, pfx))
                    => (sid2 = sid /\ pfx \o id2 = sid)
              /\ (id = <<>> /\ sid # <<>> /\ ~StartsWith(sid, pfx))
                    => (sid2 = pfx \o sid /\ id2 = sid)
              /\ (id # <<>> /\ sid # <<>>) => (id2 = id /\ sid2 = sid)
              /\ (id = <<>> /\ sid = <<>>) => (id2 = <<>> /\ sid2 = <<>>)
              /\ ((id = <<>>) # (sid = <<>>)) => sid2 = pfx \o id2
              /\ DOMAIN c.params = DOMAIN c.layered
              /\ \A key \in DOMAIN c.layered \ {K_id, K_sid} :
                    c.params[key] = c.layered[key]

\* C7's case: id=__ss_999 resolves to id=999, sid=__ss_999
C7_Witness ==
    \E k \in Completed :
        /\ calls[k].protocol = <<"s", "l", "i", "d", "e", "s", "h", "a", "r", "e">>
        /\ calls[k].layer = (K_id :> <<"_", "_", "s", "s", "_", "9", "9", "9">>)
        /\ calls[k].params[K_id] = <<"9", "9", "9">>
        /\ calls[k].params[K_sid] = <<"_", "_", "s", "s", "_", "9", "9", "9">>

\* the defaults of the protocols that take a width and a height
C8_Defaults ==
    (<<"p", "d", "f">> :> [w |-> <<"5", "2", "0">>, h |-> <<"6", "7", "5">>])
        @@ (<<"s", "l", "i", "d", "e", "s", "h", "a", "r", "e">> :> [w |-> <<"5", "2", "0">>, h |-> <<"4", "3", "5">>])
        @@ (<<"v", "i", "m", "e", "o">> :> [w |-> <<"5", "2", "0">>, h |-> <<"3", "9", "0">>])
        @@ (<<"y", "o", "u", "t", "u", "b", "e">> :> [w |-> <<"5", "2", "0">>, h |-> <<"3", "9", "0">>])

\* the value of the first field named v of the url's query string, the
\* fields being separated by "&" or ";"; empty without query or such field
C8_QueryV(url) ==
    LET marks == {k \in 1..Len(url) : url[k] = "?"}
        q == IF marks = {} THEN <<>> ELSE From(url, Min(marks) + 1)
        seps == {k \in 1..Len(q) : q[k] \in {"&", ";"}}
        starts == {1} \cup {k + 1 : k \in seps}
        last(s) == Min({k \in seps \cup {Len(q) + 1} : k >= s}) - 1
        eq(s) == {k \in s..last(s) : q[k] = "="}
        name(s) == IF eq(s) = {} THEN SubSeq(q, s, last(s))
                   ELSE SubSeq(q, s, Min(eq(s)) - 1)
        value(s) == IF eq(s) = {} THEN <<>> ELSE SubSeq(q, Min(eq(s)) + 1, last(s))
        named == {s \in starts : last(s) >= s /\ Unquote(name(s)) = <<"v">>}
    IN  IF named = {} THEN <<>> ELSE Unquote(value(Min(named)))

\* the url without its query string (what the first "?" starts), and of
\* that the segment after the last "/"
C8_LastSegment(url) ==
    LET marks == {k \in 1..Len(url) : url[k] = "?"}
        path == IF marks = {} THEN url ELSE SubSeq(url, 1, Min(marks) - 1)
        slashes == {k \in 1..Len(path) : path[k] = "/"}
    IN  IF slashes = {} THEN path ELSE From(path, Max(slashes) + 1)

\* C8 (as claimed): the Parameter Set is {title, url}, then the defaults, then the
\* attributes, then the derived identifiers, later layers winning: an
\* attribute width or height replaces the default in the output, and for
\* youtube and vimeo the id is the one derived from the directive's url.
C8_LayerOrder ==
    \A k \in Completed :
        LET c == calls[k]
            has(key) == key \in DOMAIN c.layer
            w == IF has(K_width) THEN c.layer[K_width] ELSE C8_Defaults[c.protocol].w
            h == IF has(K_height) THEN c.layer[K_height] ELSE C8_Defaults[c.protocol].h
        IN  /\ c.params[K_title] = IF has(K_title) THEN c.layer[K_title] ELSE c.title
            /\ c.params[K_url] = IF has(K_url) THEN c.layer[K_url] ELSE c.url
            /\ \A key \in DOMAIN c.layer \ {K_id, K_sid} : c.params[key] = c.layer[key]
            /\ (c.protocol \in DOMAIN C8_Defaults /\ c.template = c.protocol) =>
                  /\ c.params[K_width] = w
                  /\ c.params[K_height] = h
                  /\ Contains(c.out, <<" width=\"">> \o w \o <<"\"", " height=\"">>
                                        \o h \o <<"\"">>)
            /\ c.protocol = <<"y", "o", "u", "t", "u", "b", "e">> =>
                  /\ c.params[K_id] = C8_QueryV(c.url)
                  /\ Contains(c.out, <<" src=\"http://www.youtube.com/embed/">>
                                        \o C8_QueryV(c.url) \o <<"\"">>)
            /\ c.protocol = <<"v", "i", "m", "e", "o">> =>
                  /\ c.params[K_id] = C8_LastSegment(c.url)
                  /\ Contains(c.out, <<" src=\"http://player.vimeo.com/video/">>
                                        \o C8_LastSegment(c.url)
                                        \o <<"?title=0&amp;byline=0&amp;portrait=0\"">>)

\* the attribute layer C9 describes for the matches ms of the token forms
\* in s: form 1 sets id, forms 2 and 3 set the name before "=", form 4
\* joins the class list; st is [d, cl]
RECURSIVE C9_Fold(_, _, _)
C9_Fold(s, ms, st) ==
    IF Len(ms) = 0
    THEN IF st.cl = <<>> THEN st.d ELSE (K_class :> StrJoin(<<" ">>, st.cl)) @@ st.d
    ELSE LET m == ms[1]
             tok == SubSeq(s, m.s, m.e - 1)
             eq == Find(tok, <<"=">>, 1)
             next ==
                 IF m.form = 1 THEN [st EXCEPT !.d = (K_id :> Tail(tok)) @@ @]
                 ELSE IF m.form = 2
                 THEN [st EXCEPT !.d = (SubSeq(tok, 1, eq - 1)
                                          :> SubSeq(tok, eq + 2, Len(tok) - 1)) @@ @]
                 ELSE IF m.form = 3
                 THEN [st EXCEPT !.d = (SubSeq(tok, 1, eq - 1) :> From(tok, eq + 1)) @@ @]
                 ELSE [st EXCEPT !.cl = Append(@, tok)]
         IN  C9_Fold(s, Tail(ms), next)

C9_Expected(has, attrs) ==
    IF ~has \/ ~reATTRIBUTE_TITLE_search(attrs).ok THEN EmptyDict
    ELSE LET s == reATTRIBUTE_TITLE_search(attrs).g2
         IN  C9_Fold(s, reATTR_scan(s, 1), [d |-> EmptyDict, cl |-> <<>>])

\* C9 (as claimed): no attribute layer without a {{...}} segment; else each
\* unit of the interior, by the first form it matches, sets id (#name),
\* sets a name to its quoted or unquoted value, or joins the class list;
\* the last unit setting a name wins.
C9_AttributeLayer ==
    \A k \in 1..Len(calls) :
        /\ calls[k].err # "AttributeError"
        /\ calls[k].err = "" =>
              calls[k].layer = C9_Expected(calls[k].has_attrs, calls[k].attrs)

\* the parameter names each template refers to
C10_Refs ==
    (<<"p", "d", "f">> :> {K_url, K_width, K_height})
        @@ (<<"s", "l", "i", "d", "e", "s", "h", "a", "r", "e">> :> {K_width, K_sid, K_id, K_height, K_url, K_title})
        @@ (<<"s", "l", "i", "d", "e", "s", "h", "a", "r", "e", "_", "n", "o", "i", "d">> :> {K_url, K_title})
        @@ (<<"s", "p", "e", "a", "k", "e", "r", "d", "e", "c", "k">> :> {K_id, K_url, K_title})
        @@ (<<"s", "p", "e", "a", "k", "e", "r", "d", "e", "c", "k", "_", "n", "o", "i", "d">> :> {K_url, K_title})
        @@ (<<"v", "i", "m", "e", "o">> :> {K_id, K_width, K_height, K_url, K_title})
        @@ (<<"y", "o", "u", "t", "u", "b", "e">> :> {K_width, K_height, K_id})

\* C10: the Parameter Set handed to the selected template holds every
\* name the template refers to, whatever the attribute block: rendering
\* never misses a key.
C10_KeysPresent ==
    \A k \in 1..Len(calls) :
        /\ calls[k].err # "KeyError"
        /\ calls[k].err = "" =>
              /\ calls[k].template \in DOMAIN C10_Refs
              /\ C10_Refs[calls[k].template] \subseteq DOMAIN calls[k].params

\* C10's case: a full template rendered for a directive with attributes
C10_Witness ==
    \E k \in Completed :
        /\ calls[k].protocol = <<"v", "i", "m", "e", "o">>
        /\ calls[k].template = <<"v", "i", "m", "e", "o">>
        /\ K_class \in DOMAIN calls[k].layer
        /\ K_width \notin DOMAIN calls[k].layer
        /\ result.kind = "lines"

=============================================================================
